---------------------------- MODULE Spec2Model ----------------------------
(***************************************************************************)
(* Model of python/lancedb/embeddings/utils.py:                            *)
(*   - FunctionWrapper: the chainable batching / retry / rate-limit /      *)
(*     progress pipeline around an embedding function (specification      *)
(*     Spec, and SpecLimiter with time passing during a call);             *)
(*   - with_embeddings, which runs a FunctionWrapper over a column of a    *)
(*     table                                          (SpecTable);         *)
(*   - retry_with_exponential_backoff   (SpecBackoff, SpecBackoffFair);    *)
(*   - weak_lru                                       (SpecCache).         *)
(* The components share no state (with_embeddings uses the wrapper's);     *)
(* each specification moves the variables of its component and leaves the  *)
(* others at their initial values.                                         *)
(***************************************************************************)
EXTENDS Integers, Sequences, FiniteSets, TLC

VARIABLES
    \* ---- FunctionWrapper fields (utils.py 91-96)
    rate_limiter_kwargs,   \* dict: <<>> or [max_calls, period]
    retry_kwargs,          \* dict: <<>> or [tries, delay, max_delay, backoff, jitter]
    _batch_size,           \* None or an integer
    _progress,             \* BOOLEAN
    \* ---- runtime the wrapper runs in
    pyminor,               \* sys.version_info.minor
    \* ---- frame of one FunctionWrapper.__call__ (utils.py 98-127)
    pc,                    \* "idle" | "loop" | "embed" | "returned" | "raised"
    text,                  \* the input sequence
    embed_retry,           \* embed_func is decorated with @retry
    embed_limited,         \* embed_func is wrapped by the RateLimiter
    warned,                \* the "proceeding without rate limiter" warning was printed
    gen,                   \* to_batches generator: "new" | "running" | "done"
    start_i,               \* _chunker's loop variable
    total,                 \* tqdm's total (None without progress)
    ticks,                 \* batches that went through tqdm
    c,                     \* the batch being embedded
    tries_left,            \* the retry decorator's remaining attempts for c
    embeds,                \* the comprehension's accumulated list
    err,                   \* the exception that left __call__ (NoErr if none)
    \* ---- history of the current call
    batches,               \* batches yielded by to_batches so far
    attempts,              \* invocations of self.func for the latest batch
    failures,              \* of which raised
    lastExc,               \* the exception raised by the latest failed attempt
    passes,                \* times a batch call entered the rate limiter
    \* ---- the RateLimiter of the current call (utils.py 121-124) and its clock
    lim_calls,             \* its deque of exit timestamps, as time before the latest one
    lim_idle,              \* time since the latest exit, up to the period
    lim_waited,            \* time the limiter slept before it admitted the latest batch
    starts,                \* history: ages of the admissions younger than the period
    result,                \* what __call__ returned: None, or Some(list)
    \* ---- history of the invocations of self.func in the current call
    okCalls,               \* invocations that returned
    lastIdx,               \* number of the batch the latest invocation was for (0 if none)
    lastArg,               \* the argument of the latest invocation
    earlierFailed,         \* an invocation for a batch before the current one raised
    \* ---- frame of one with_embeddings (utils.py 41-83)
    we_pc,                 \* "idle" | "embedding" | "returned" | "raised"
    data,                  \* the input table: a sequence of columns [name, values]
    column,                \* the name of the source column
    table,                 \* the table with_embeddings returned (<<>> if none)
    we_err,                \* the exception that left with_embeddings (NoErr if none)
    \* ---- history of the current with_embeddings
    miscounted,            \* the function returned a wrong number of vectors for some batch
    \* ---- retry_with_exponential_backoff: arguments (utils.py 213-220)
    initial_delay,
    exponential_base,
    jitter,
    max_retries,
    \* ---- frame of one call of its wrapper (utils.py 235-257)
    bo_pc,                 \* "idle" | "running" | "returned" | "raised"
    num_retries,
    delay,                 \* a rational [num, den]
    bo_err,                \* the exception that left the wrapper (NoErr if none)
    \* ---- history of the current call of the wrapper
    bo_calls,              \* invocations of func
    bo_lastExc,            \* the exception raised by the latest failed invocation
    slept,                 \* the delays handed to time.sleep, in order
    \* ---- weak_lru: the decorated method and its receivers (utils.py 169-210)
    maxsize,               \* the argument of weak_lru
    selfRefArgs,           \* arguments for which the method's result refers to its receiver
    status,                \* per receiver: "held" | "dropped" | "reclaimed"
    lru,                   \* the entries of _func's lru_cache, least recently used first
    \* ---- history of the calls of the decorated method
    lastCall,              \* the latest call and what was known before it
    memo,                  \* per (receiver, arg): the result last returned, until its entry is evicted
    recent,                \* the maxsize most recently called distinct (receiver, arg), latest first
    called                 \* the (receiver, arg) pairs called so far

pipeVars == <<rate_limiter_kwargs, retry_kwargs, _batch_size, _progress, pyminor,
              pc, text, embed_retry, embed_limited, warned, gen, start_i, total,
              ticks, c, tries_left, embeds, err, batches, attempts, failures,
              lastExc, passes, lim_calls, lim_idle, lim_waited, starts, result,
              okCalls, lastIdx, lastArg, earlierFailed>>

histVars == <<okCalls, lastIdx, lastArg, earlierFailed>>

boVars == <<initial_delay, exponential_base, jitter, max_retries, bo_pc,
            num_retries, delay, bo_err, bo_calls, bo_lastExc, slept>>

cacheVars == <<maxsize, selfRefArgs, status, lru, lastCall, memo, recent, called>>

tableVars == <<we_pc, data, column, table, we_err, miscounted>>

vars == <<pipeVars, boVars, cacheVars, tableVars>>

\* the variables of the other components, which the pipeline leaves alone
notPipeVars == <<boVars, cacheVars, tableVars>>

\* the variables of the other components, which the backoff helper leaves alone
notBoVars == <<pipeVars, cacheVars, tableVars>>

\* the variables of the other components, which the cache leaves alone
notCacheVars == <<pipeVars, boVars, tableVars>>

\* the variables of the components with_embeddings does not use
notTableVars == <<boVars, cacheVars>>

-----------------------------------------------------------------------------
(* Bounds of the model *)

\* longest input sequence
MaxLen == 3
\* largest batch size handed to batch_size()
MaxBatch == 3
\* largest `tries` handed to retry()
MaxTries == 3
\* largest max_retries handed to retry_with_exponential_backoff
MaxRetries == 3
\* largest initial_delay
MaxInitialDelay == 2
\* largest exponential_base
MaxBase == 2
\* granularity of the random draws: random.random() is one of k / RandDen
RandDen == 2
\* receivers of the method decorated with weak_lru
NumRecv == 3
\* distinct arguments the decorated method is called with
NumArgs == 2
\* largest maxsize handed to weak_lru
MaxSize == 2
\* longest period handed to rate_limit(), in units of the clock
MaxPeriod == 2

-----------------------------------------------------------------------------
(* Values *)

\* an optional integer: None is the empty tuple, the integer n is <<n>>
None == <<>>
Some(n) == <<n>>
IsNone(x) == Len(x) = 0
Val(x) == x[1]

\* no exception kind
NoKind == "NoKind"
NoErr == [kind |-> "NoErr"]

\* items of the column; two values so that order and repetition both show
Items == {"a", "b"}

Min(x, y) == IF x <= y THEN x ELSE y

SeqsUpTo(S, n) == UNION {[1..k -> S] : k \in 0..n}

\* inputs of __call__
Texts == SeqsUpTo(Items, MaxLen)

\* arguments of batch_size(): the builder stores whatever it is given
BatchSizes == (-1)..MaxBatch

\* arguments of retry(tries=...)
TriesChoices == 1..MaxTries

\* max_calls is a number of calls that need not be whole (the default is 0.9):
\* it is counted in tenths of a call
CallUnit == 10

\* the default of rate_limit(max_calls=...), 0.9
DefaultMaxCalls == 9

\* the default of rate_limit(period=...), one unit of the clock
DefaultPeriod == 1

\* the default of retry(tries=...)
DefaultTries == 10

\* arguments of rate_limit(max_calls=...): 0.9, 1 and 2 calls
MaxCallsChoices == {DefaultMaxCalls, 1 * CallUnit, 2 * CallUnit}

\* arguments of rate_limit(period=...), in units of the clock
PeriodChoices == 1..MaxPeriod

\* the values of the "id" column of a table of n rows
Ids(n) == [i \in 1..n |-> i]

\* input tables of with_embeddings: an "id" column and a "text" column
Tables == {<<[name |-> "id", values |-> Ids(Len(t))], [name |-> "text", values |-> t]>> :
              t \in Texts}

\* column names handed to with_embeddings: the default, another column of the
\* table, and one the table does not have
ColumnNames == {"text", "id", "title"}

\* interpreters on either side of the version gate of __call__
PyMinors == {10, 11}

\* the vector the embedding function returns for one item
Embed(item) == <<"vec", item>>

\* len(d) of a dict modelled as a function
KwLen(d) == Cardinality(DOMAIN d)

\* math.ceil(a / b) for b # 0
CeilDiv(a, b) == IF b > 0 THEN (a + b - 1) \div b ELSE -((a) \div (-b))

\* random.random() draws k / RandDen for k in 0..RandDen-1
RandDraws == 0..(RandDen - 1)

\* receivers (object identities) and arguments of the decorated method
Recv == 1..NumRecv
Args == 1..NumArgs
Pairs == Recv \X Args

\* the value a receiver compares and hashes by (__eq__ / __hash__ of its class):
\* receivers 1 and 2 are distinct objects that compare equal, every other
\* receiver compares equal to itself only
ValueOf(r) == IF r <= 2 THEN 1 ELSE r

\* no result, and no call
NoResult == [by |-> 0, arg |-> 0, refs |-> {}]
NoCall == [recv |-> 0, arg |-> 0, hit |-> FALSE, result |-> NoResult,
           memoBefore |-> NoResult, wasRecent |-> FALSE, wasCalled |-> FALSE]

Range(q) == {q[i] : i \in 1..Len(q)}

-----------------------------------------------------------------------------
(* Rational numbers [num, den] with den > 0, for the backoff delays *)

Rat(n) == [num |-> n, den |-> 1]
RatLeq(x, y) == x.num * y.den <= y.num * x.den
RatEq(x, y) == x.num * y.den = y.num * x.den

RECURSIVE Pow(_, _)
Pow(b, n) == IF n = 0 THEN 1 ELSE b * Pow(b, n - 1)

-----------------------------------------------------------------------------
(* The components at rest: what a specification of another component holds
   them at *)

ParkedBo ==
    /\ initial_delay = 1 /\ exponential_base = 2 /\ jitter = TRUE /\ max_retries = 7
    /\ bo_pc = "idle" /\ num_retries = 0 /\ delay = Rat(1) /\ bo_err = NoErr
    /\ bo_calls = 0 /\ bo_lastExc = NoErr /\ slept = <<>>

ParkedCache ==
    /\ maxsize = 128 /\ selfRefArgs = {} /\ status = [r \in Recv |-> "held"]
    /\ lru = <<>> /\ lastCall = NoCall /\ memo = [p \in Pairs |-> NoResult]
    /\ recent = <<>> /\ called = {}

ParkedTable ==
    /\ we_pc = "idle" /\ data = <<>> /\ column = "text" /\ table = <<>>
    /\ we_err = NoErr /\ miscounted = FALSE

ParkedPipe ==
    /\ rate_limiter_kwargs = <<>> /\ retry_kwargs = <<>> /\ _batch_size = None
    /\ _progress = FALSE /\ pyminor = 10 /\ pc = "idle"
    /\ text = <<>> /\ embed_retry = FALSE /\ embed_limited = FALSE
    /\ warned = FALSE /\ gen = "new" /\ start_i = 0 /\ total = None /\ ticks = 0
    /\ c = <<>> /\ tries_left = 0 /\ embeds = <<>> /\ err = NoErr
    /\ batches = <<>> /\ attempts = 0 /\ failures = 0 /\ lastExc = NoErr
    /\ passes = 0
    /\ lim_calls = <<>> /\ lim_idle = 0 /\ lim_waited = 0 /\ starts = <<>>
    /\ result = None /\ okCalls = 0 /\ lastIdx = 0 /\ lastArg = <<>>
    /\ earlierFailed = FALSE

-----------------------------------------------------------------------------
(* FunctionWrapper: construction and builder calls *)

\* variables of one __call__ frame and its history, as they are outside a call
FrameIdle ==
    /\ text = <<>> /\ embed_retry = FALSE /\ embed_limited = FALSE
    /\ warned = FALSE /\ gen = "new" /\ start_i = 0 /\ total = None /\ ticks = 0
    /\ c = <<>> /\ tries_left = 0 /\ embeds = <<>> /\ err = NoErr
    /\ batches = <<>> /\ attempts = 0 /\ failures = 0 /\ lastExc = NoErr
    /\ passes = 0
    /\ lim_calls = <<>> /\ lim_idle = 0 /\ lim_waited = 0 /\ starts = <<>>
    /\ result = None /\ okCalls = 0 /\ lastIdx = 0 /\ lastArg = <<>>
    /\ earlierFailed = FALSE

frameVars == <<text, embed_retry, embed_limited, warned, gen, start_i, total, ticks,
               c, tries_left, embeds, err, batches, attempts, failures, lastExc,
               passes, lim_calls, lim_idle, lim_waited, starts, result, okCalls,
               lastIdx, lastArg, earlierFailed>>

\* FunctionWrapper.__init__
InitPipe ==
    /\ rate_limiter_kwargs = <<>>
    /\ retry_kwargs = <<>>
    /\ _batch_size = None
    /\ _progress = FALSE
    /\ pyminor \in PyMinors
    /\ pc = "idle"
    /\ FrameIdle

\* no __call__ frame exists: the builder methods and __call__ are called from one
\* sequence of calls, so a builder call never interleaves with a running call
NotRunning == pc = "idle"

\* FunctionWrapper.rate_limit
rate_limit(max_calls, period) ==
    /\ NotRunning
    /\ rate_limiter_kwargs' = [max_calls |-> max_calls, period |-> period]
    /\ UNCHANGED notPipeVars
    /\ UNCHANGED <<retry_kwargs, _batch_size, _progress, pyminor, pc, frameVars>>

\* FunctionWrapper.retry
retry(tries) ==
    /\ NotRunning
    /\ retry_kwargs' = [tries |-> tries, delay |-> 1, max_delay |-> 30,
                        backoff |-> 3, jitter |-> 1]
    /\ UNCHANGED notPipeVars
    /\ UNCHANGED <<rate_limiter_kwargs, _batch_size, _progress, pyminor, pc, frameVars>>

\* FunctionWrapper.batch_size
batch_size(n) ==
    /\ NotRunning
    /\ _batch_size' = Some(n)
    /\ UNCHANGED notPipeVars
    /\ UNCHANGED <<rate_limiter_kwargs, retry_kwargs, _progress, pyminor, pc, frameVars>>

\* FunctionWrapper.show_progress
show_progress ==
    /\ NotRunning
    /\ _progress' = TRUE
    /\ UNCHANGED notPipeVars
    /\ UNCHANGED <<rate_limiter_kwargs, retry_kwargs, _batch_size, pyminor, pc, frameVars>>

-----------------------------------------------------------------------------
(* FunctionWrapper.__call__ up to the comprehension *)

\* `len(self.retry_kwargs) > 0`: embed_func gets the @retry decorator
RetryConfigured(kw) == KwLen(kw) > 0

\* `len(self.rate_limiter_kwargs) > 0`
RateLimitConfigured(kw) == KwLen(kw) > 0

\* a gate that lets every interpreter use the limiter
LimiterAlways(v) == TRUE

\* the version gate: the limiter is used below 3.11 only
LimiterAvailable(v) == v < 11

\* FunctionWrapper.__call__, lines 98-125: embed_func is composed and the
\* to_batches generator is created (its body does not run before the first next())
Call(t) ==
    /\ NotRunning
    /\ text' = t
    /\ embed_retry' = RetryConfigured(retry_kwargs)
    /\ embed_limited' = (RateLimitConfigured(rate_limiter_kwargs) /\ LimiterAvailable(pyminor))
    /\ warned' = (RateLimitConfigured(rate_limiter_kwargs) /\ ~LimiterAvailable(pyminor))
    /\ gen' = "new" /\ start_i' = 0 /\ total' = None /\ ticks' = 0
    /\ c' = <<>> /\ tries_left' = 0 /\ embeds' = <<>> /\ err' = NoErr
    /\ batches' = <<>> /\ attempts' = 0 /\ failures' = 0 /\ lastExc' = NoErr
    /\ passes' = 0
    /\ lim_calls' = <<>> /\ lim_idle' = 0 /\ lim_waited' = 0 /\ starts' = <<>>
    /\ result' = None /\ okCalls' = 0 /\ lastIdx' = 0 /\ lastArg' = <<>>
    /\ earlierFailed' = FALSE
    /\ pc' = "loop"
    /\ UNCHANGED notPipeVars
    /\ UNCHANGED <<rate_limiter_kwargs, retry_kwargs, _batch_size, _progress, pyminor>>

-----------------------------------------------------------------------------
(* FunctionWrapper.to_batches: the generator the comprehension iterates *)

\* the exception the generator body raises on its first resume, NoKind if none:
\* with progress, math.ceil(length / self._batch_size) is evaluated first
\* (TypeError for None, ZeroDivisionError for 0); otherwise range(0, len(arr),
\* self._batch_size) raises (TypeError for None, ValueError for a zero step)
ToBatchesError(b, progress) ==
    IF IsNone(b) THEN "TypeError"
    ELSE IF Val(b) = 0 THEN (IF progress THEN "ZeroDivisionError" ELSE "ValueError")
    ELSE NoKind

\* whether i is produced by range(0, stop, step), i being 0 plus a multiple of step
RangeHas(i, stop, step) == IF step > 0 THEN i < stop ELSE i > stop

\* arr[lo:hi] for 0 <= lo
Slice(arr, lo, hi) == SubSeq(arr, lo + 1, Min(hi, Len(arr)))

\* a slice that stops one element early
ChunkShort(arr, i, b) == Slice(arr, i, i + b - 1)

\* arr[start_i : start_i + self._batch_size]
Chunk(arr, i, b) == Slice(arr, i, i + b)

\* tqdm's total, evaluated once when the generator body starts
ProgressTotal(length, b, progress) == IF progress THEN Some(CeilDiv(length, b)) ELSE None

\* range(0, len(arr), self._batch_size) moved on by two steps
NextStartTwice(i, b) == i + 2 * b

\* range(0, len(arr), self._batch_size): the start of the next batch
NextStart(i, b) == i + b

\* one attempt less than configured
RetryTriesLess(kw) == kw.tries - 1

\* `tries` as the decorator of embed_func receives it from self.retry_kwargs
RetryTries(kw) == kw.tries

\* the timestamps q seen d later, those that reached the period P dropped
Aged(q, d, P) == SelectSeq([i \in 1..Len(q) |-> q[i] + d], LAMBDA a : a < P)

\* RateLimiter.__enter__: with max_calls timestamps or more in the deque it
\* sleeps period - (calls[-1] - calls[0]), else not at all
SleepTime(calls, max_calls, P) ==
    IF CallUnit * Len(calls) >= max_calls THEN P - calls[1] ELSE 0

\* RateLimiter.__exit__: the deque after time.time() is appended and the left
\* end popped while calls[-1] - calls[0] >= period
LimiterExit(calls, idle, P) == Aged(calls, idle, P) \o <<0>>

\* a budget that is new for the first batch only: later batches go on with
\* what the batch before them left
SharedBudget(kw, left, first) == IF first THEN RetryTries(kw) ELSE left

\* the attempts embed_func(c) starts with: every call of the decorated function
\* counts down from `tries` on its own, whatever an earlier call (left) used up
FreshBudget(kw, left, first) == RetryTries(kw)

\* the generator raises on its first resume; the exception leaves __call__
GenRaise ==
    /\ pc = "loop" /\ gen = "new"
    /\ ToBatchesError(_batch_size, _progress) # NoKind
    /\ gen' = "done"
    /\ err' = [kind |-> ToBatchesError(_batch_size, _progress)]
    /\ pc' = "raised"
    /\ UNCHANGED notPipeVars
    /\ UNCHANGED <<rate_limiter_kwargs, retry_kwargs, _batch_size, _progress, pyminor,
                   text, embed_retry, embed_limited, warned, start_i, total, ticks, c,
                   tries_left, embeds, batches, attempts, failures, lastExc, passes,
                   lim_calls, lim_idle, lim_waited, starts, result, histVars>>

\* the generator yields the next batch and embed_func(c) is entered: through the
\* limiter if there is one, then into the retry decorator if there is one
GenYield ==
    /\ pc = "loop"
    /\ ToBatchesError(_batch_size, _progress) = NoKind
    /\ RangeHas(start_i, Len(text), Val(_batch_size))
    /\ gen' = "running"
    /\ total' = IF gen = "new" THEN ProgressTotal(Len(text), Val(_batch_size), _progress)
                ELSE total
    /\ c' = Chunk(text, start_i, Val(_batch_size))
    /\ start_i' = NextStart(start_i, Val(_batch_size))
    /\ batches' = Append(batches, c')
    /\ ticks' = IF _progress THEN ticks + 1 ELSE ticks
    /\ passes' = IF embed_limited THEN passes + 1 ELSE passes
    /\ IF embed_limited
       THEN LET P == rate_limiter_kwargs.period
                w == SleepTime(lim_calls, rate_limiter_kwargs.max_calls, P)
            IN  /\ lim_waited' = w
                /\ lim_idle' = IF lim_calls = <<>> THEN lim_idle ELSE Min(P, lim_idle + w)
                /\ starts' = Append(Aged(starts, w, P), 0)
                /\ UNCHANGED lim_calls
       ELSE UNCHANGED <<lim_calls, lim_idle, lim_waited, starts>>
    /\ tries_left' = IF embed_retry
                     THEN FreshBudget(retry_kwargs, tries_left, batches = <<>>)
                     ELSE 0
    /\ attempts' = 0 /\ failures' = 0
    /\ earlierFailed' = (earlierFailed \/ failures > 0)
    /\ UNCHANGED <<result, okCalls, lastIdx, lastArg>>
    /\ pc' = "embed"
    /\ UNCHANGED notPipeVars
    /\ UNCHANGED <<rate_limiter_kwargs, retry_kwargs, _batch_size, _progress, pyminor,
                   text, embed_retry, embed_limited, warned, embeds, err, lastExc>>

\* the generator is exhausted: the comprehension ends and __call__ returns embeds
GenStop ==
    /\ pc = "loop"
    /\ ToBatchesError(_batch_size, _progress) = NoKind
    /\ ~RangeHas(start_i, Len(text), Val(_batch_size))
    /\ gen' = "done"
    /\ total' = IF gen = "new" THEN ProgressTotal(Len(text), Val(_batch_size), _progress)
                ELSE total
    /\ pc' = "returned"
    /\ result' = Some(embeds)
    /\ UNCHANGED histVars
    /\ UNCHANGED notPipeVars
    /\ UNCHANGED <<rate_limiter_kwargs, retry_kwargs, _batch_size, _progress, pyminor,
                   text, embed_retry, embed_limited, warned, start_i, ticks, c,
                   tries_left, embeds, err, batches, attempts, failures, lastExc,
                   passes, lim_calls, lim_idle, lim_waited, starts>>

-----------------------------------------------------------------------------
(* embed_func(c): one invocation of self.func(c.tolist()) *)

\* what a length-preserving embedding function returns for a batch
FuncResult(batch) == [i \in 1..Len(batch) |-> Embed(batch[i])]

\* the batch's vectors put in front of the earlier ones
ExtendFront(acc, res) == res \o acc

\* `for emb in embed_func(c)`: the batch's vectors are appended in order
Extend(acc, res) == acc \o res

\* the retry decorator after a failed attempt: one attempt less; with none left
\* it re-raises the exception it caught (a bare `raise`)
TriesAfterFailure(left) == left - 1

\* the limiter entered again by the retried attempt
PassesOnRetryAgain(p) == p + 1

\* the retry decorator is inside the limiter's wrapper (limiter(embed_func) wraps
\* the decorated embed_func): an attempt it repeats does not enter the limiter
PassesOnRetry(p) == p

\* the comprehension goes on with the next batch
PcOnErrorContinue == "loop"

\* an exception that leaves embed_func ends the comprehension and __call__
PcOnError == "raised"

\* the exception replaced by one that wraps it
PropagateWrapped(e) == [kind |-> "RetryError", cause |-> e]

\* an exception leaving embed_func passes the limiter's `with` block and the
\* comprehension, neither of which catches or replaces it
Propagate(e) == e

\* self.func returns for the current batch
AttemptOk ==
    /\ pc = "embed"
    /\ attempts' = attempts + 1
    /\ embeds' = Extend(embeds, FuncResult(c))
    /\ okCalls' = okCalls + 1 /\ lastIdx' = Len(batches) /\ lastArg' = c
    /\ UNCHANGED <<result, earlierFailed>>
    /\ pc' = "loop"
    /\ IF embed_limited
       THEN /\ lim_calls' = LimiterExit(lim_calls, lim_idle, rate_limiter_kwargs.period)
            /\ lim_idle' = 0
       ELSE UNCHANGED <<lim_calls, lim_idle>>
    /\ UNCHANGED <<lim_waited, starts>>
    /\ UNCHANGED notPipeVars
    /\ UNCHANGED <<rate_limiter_kwargs, retry_kwargs, _batch_size, _progress, pyminor,
                   text, embed_retry, embed_limited, warned, gen, start_i, total, ticks,
                   c, tries_left, err, batches, failures, lastExc, passes>>

\* self.func raises for the current batch
AttemptFail ==
    /\ pc = "embed"
    /\ attempts' = attempts + 1
    /\ failures' = failures + 1
    /\ lastIdx' = Len(batches) /\ lastArg' = c
    /\ UNCHANGED <<result, okCalls, earlierFailed>>
    /\ lastExc' = [kind |-> "FuncError", batch |-> Len(batches), attempt |-> attempts + 1]
    /\ IF embed_retry /\ TriesAfterFailure(tries_left) # 0
       THEN \* the decorator sleeps and calls again
            /\ tries_left' = TriesAfterFailure(tries_left)
            /\ passes' = IF embed_limited THEN PassesOnRetry(passes) ELSE passes
            /\ UNCHANGED <<pc, err, lim_calls, lim_idle>>
       ELSE \* no decorator, or no attempt left: the exception leaves __call__
            /\ tries_left' = IF embed_retry THEN TriesAfterFailure(tries_left) ELSE tries_left
            /\ err' = Propagate(lastExc')
            /\ pc' = PcOnError
            /\ UNCHANGED passes
            /\ IF embed_limited
               THEN /\ lim_calls' = LimiterExit(lim_calls, lim_idle,
                                                rate_limiter_kwargs.period)
                    /\ lim_idle' = 0
               ELSE UNCHANGED <<lim_calls, lim_idle>>
    /\ UNCHANGED <<lim_waited, starts>>
    /\ UNCHANGED notPipeVars
    /\ UNCHANGED <<rate_limiter_kwargs, retry_kwargs, _batch_size, _progress, pyminor,
                   text, embed_retry, embed_limited, warned, gen, start_i, total, ticks,
                   c, embeds, batches>>

\* time passes while __call__ runs (in self.func, in the sleeps of the retry
\* decorator, in the generator); only the limiter reads the clock
Tick ==
    /\ pc \in {"loop", "embed"}
    /\ embed_limited
    /\ starts # <<>> \/ (lim_calls # <<>> /\ lim_idle < rate_limiter_kwargs.period)
    /\ lim_idle' = IF lim_calls = <<>> THEN lim_idle
                   ELSE Min(rate_limiter_kwargs.period, lim_idle + 1)
    /\ starts' = Aged(starts, 1, rate_limiter_kwargs.period)
    /\ UNCHANGED notPipeVars
    /\ UNCHANGED <<rate_limiter_kwargs, retry_kwargs, _batch_size, _progress, pyminor,
                   pc, text, embed_retry, embed_limited, warned, gen, start_i, total,
                   ticks, c, tries_left, embeds, err, batches, attempts, failures,
                   lastExc, passes, lim_calls, lim_waited, result, histVars>>

\* __call__ has returned or raised and its frame is gone: the wrapper can be
\* configured further and called again
Finish ==
    /\ pc \in {"returned", "raised"}
    /\ pc' = "idle"
    /\ text' = <<>> /\ embed_retry' = FALSE /\ embed_limited' = FALSE
    /\ warned' = FALSE /\ gen' = "new" /\ start_i' = 0 /\ total' = None /\ ticks' = 0
    /\ c' = <<>> /\ tries_left' = 0 /\ embeds' = <<>> /\ err' = NoErr
    /\ batches' = <<>> /\ attempts' = 0 /\ failures' = 0 /\ lastExc' = NoErr
    /\ passes' = 0
    /\ lim_calls' = <<>> /\ lim_idle' = 0 /\ lim_waited' = 0 /\ starts' = <<>>
    /\ result' = None /\ okCalls' = 0 /\ lastIdx' = 0 /\ lastArg' = <<>>
    /\ earlierFailed' = FALSE
    /\ UNCHANGED notPipeVars
    /\ UNCHANGED <<rate_limiter_kwargs, retry_kwargs, _batch_size, _progress, pyminor>>

-----------------------------------------------------------------------------
(* with_embeddings *)

\* with_embeddings outside a call
InitWe ==
    /\ we_pc = "idle" /\ data = <<>> /\ column = "text" /\ table = <<>>
    /\ we_err = NoErr /\ miscounted = FALSE

NumRows(tbl) == Len(tbl[1].values)

HasColumn(tbl, name) == \E k \in 1..Len(tbl) : tbl[k].name = name

\* data[column]: the values of the column of that name
ColumnValues(tbl, name) ==
    tbl[CHOOSE k \in 1..Len(tbl) : tbl[k].name = name].values

\* vec_to_table(np.array(embeddings))["vector"]: the vectors as one column
VecToTable(embeddings) == [name |-> "vector", values |-> embeddings]

\* a column of any length is taken
LengthsAgreeAlways(tbl, col) == TRUE

\* pyarrow's append_column takes a column that has as many values as the table
\* has rows and raises ArrowInvalid for any other
LengthsAgree(tbl, col) == Len(col.values) = NumRows(tbl)

\* the new column put before the others
AppendColumnFirst(tbl, col) == <<col>> \o tbl

\* data.append_column("vector", ...): a new table, the column after the others
AppendColumn(tbl, col) == tbl \o <<col>>

\* a result of the embedding function with one vector less, or one more, than
\* the batch has items
Miscounts(batch) ==
    {SubSeq(FuncResult(batch), 1, Len(batch) - 1),
     Append(FuncResult(batch), Embed(batch[Len(batch)]))}

\* with_embeddings, lines 73-81: a new FunctionWrapper is configured and called
\* on the source column; a column the table does not have raises KeyError
\* before the call
with_embeddings(d, col, wrap_api, progress, bs) ==
    /\ we_pc = "idle" /\ pc = "idle"
    /\ data' = d /\ column' = col
    /\ table' = <<>> /\ miscounted' = FALSE
    /\ rate_limiter_kwargs' = IF wrap_api
                              THEN [max_calls |-> DefaultMaxCalls, period |-> DefaultPeriod]
                              ELSE <<>>
    /\ retry_kwargs' = IF wrap_api
                       THEN [tries |-> DefaultTries, delay |-> 1, max_delay |-> 30,
                             backoff |-> 3, jitter |-> 1]
                       ELSE <<>>
    /\ _batch_size' = Some(bs)
    /\ _progress' = progress
    /\ IF HasColumn(d, col)
       THEN /\ text' = ColumnValues(d, col)
            /\ embed_retry' = RetryConfigured(retry_kwargs')
            /\ embed_limited' = (RateLimitConfigured(rate_limiter_kwargs')
                                    /\ LimiterAvailable(pyminor))
            /\ warned' = (RateLimitConfigured(rate_limiter_kwargs')
                             /\ ~LimiterAvailable(pyminor))
            /\ pc' = "loop"
            /\ we_pc' = "embedding"
            /\ we_err' = NoErr
       ELSE /\ we_pc' = "raised"
            /\ we_err' = [kind |-> "KeyError"]
            /\ UNCHANGED <<text, embed_retry, embed_limited, warned, pc>>
    /\ UNCHANGED <<pyminor, gen, start_i, total, ticks, c, tries_left, embeds, err,
                   batches, attempts, failures, lastExc, passes, lim_calls, lim_idle,
                   lim_waited, starts, result, histVars>>
    /\ UNCHANGED notTableVars

\* self.func returns, for the current batch, a list that has not one vector per
\* item
AttemptMiscount ==
    /\ pc = "embed"
    /\ \E res \in Miscounts(c) : embeds' = Extend(embeds, res)
    /\ attempts' = attempts + 1
    /\ okCalls' = okCalls + 1 /\ lastIdx' = Len(batches) /\ lastArg' = c
    /\ UNCHANGED <<result, earlierFailed>>
    /\ miscounted' = TRUE
    /\ pc' = "loop"
    /\ IF embed_limited
       THEN /\ lim_calls' = LimiterExit(lim_calls, lim_idle, rate_limiter_kwargs.period)
            /\ lim_idle' = 0
       ELSE UNCHANGED <<lim_calls, lim_idle>>
    /\ UNCHANGED <<rate_limiter_kwargs, retry_kwargs, _batch_size, _progress, pyminor,
                   text, embed_retry, embed_limited, warned, gen, start_i, total, ticks,
                   c, tries_left, err, batches, failures, lastExc, passes, lim_waited,
                   starts>>
    /\ UNCHANGED <<we_pc, data, column, table, we_err>>
    /\ UNCHANGED notTableVars

\* with_embeddings, lines 82-83: the embeddings the wrapper returned become the
\* "vector" column of a new table; a column of another length than the table
\* is refused by append_column
AppendVector ==
    /\ we_pc = "embedding" /\ pc = "returned"
    /\ IF LengthsAgree(data, VecToTable(embeds))
       THEN /\ table' = AppendColumn(data, VecToTable(embeds))
            /\ we_pc' = "returned"
            /\ UNCHANGED we_err
       ELSE /\ we_err' = [kind |-> "ArrowInvalid"]
            /\ we_pc' = "raised"
            /\ UNCHANGED table
    /\ UNCHANGED <<data, column, miscounted>>
    /\ UNCHANGED pipeVars
    /\ UNCHANGED notTableVars

\* the wrapper raised: the exception leaves with_embeddings
EmbedRaised ==
    /\ we_pc = "embedding" /\ pc = "raised"
    /\ we_err' = err
    /\ we_pc' = "raised"
    /\ UNCHANGED <<data, column, table, miscounted>>
    /\ UNCHANGED pipeVars
    /\ UNCHANGED notTableVars

\* with_embeddings has returned or raised: its frame and its wrapper are gone
WeFinish ==
    /\ we_pc \in {"returned", "raised"}
    /\ we_pc' = "idle" /\ data' = <<>> /\ column' = "text" /\ table' = <<>>
    /\ we_err' = NoErr /\ miscounted' = FALSE
    /\ rate_limiter_kwargs' = <<>> /\ retry_kwargs' = <<>> /\ _batch_size' = None
    /\ _progress' = FALSE
    /\ pc' = "idle"
    /\ text' = <<>> /\ embed_retry' = FALSE /\ embed_limited' = FALSE
    /\ warned' = FALSE /\ gen' = "new" /\ start_i' = 0 /\ total' = None /\ ticks' = 0
    /\ c' = <<>> /\ tries_left' = 0 /\ embeds' = <<>> /\ err' = NoErr
    /\ batches' = <<>> /\ attempts' = 0 /\ failures' = 0 /\ lastExc' = NoErr
    /\ passes' = 0
    /\ lim_calls' = <<>> /\ lim_idle' = 0 /\ lim_waited' = 0 /\ starts' = <<>>
    /\ result' = None /\ okCalls' = 0 /\ lastIdx' = 0 /\ lastArg' = <<>>
    /\ earlierFailed' = FALSE
    /\ UNCHANGED pyminor
    /\ UNCHANGED notTableVars

\* a call of with_embeddings with any of the arguments of the model
CallWithEmbeddings ==
    /\ we_pc = "idle"
    /\ \E d \in Tables, col \in ColumnNames, wrap_api \in BOOLEAN, progress \in BOOLEAN,
          bs \in BatchSizes : with_embeddings(d, col, wrap_api, progress, bs)

InitTable == InitPipe /\ InitWe /\ ParkedBo /\ ParkedCache

NextTable ==
    \/ CallWithEmbeddings
    \/ GenRaise
    \/ GenYield
    \/ GenStop
    \/ AttemptOk
    \/ AttemptFail
    \/ AttemptMiscount
    \/ AppendVector
    \/ EmbedRaised
    \/ WeFinish

SpecTable == InitTable /\ [][NextTable]_vars

-----------------------------------------------------------------------------
(* Specification of the pipeline *)

Init == InitPipe /\ ParkedBo /\ ParkedCache /\ ParkedTable

Next ==
    \/ \E mc \in MaxCallsChoices, p \in PeriodChoices : rate_limit(mc, p)
    \/ \E t \in TriesChoices : retry(t)
    \/ \E n \in BatchSizes : batch_size(n)
    \/ show_progress
    \/ \E t \in Texts : Call(t)
    \/ GenRaise
    \/ GenYield
    \/ GenStop
    \/ AttemptOk
    \/ AttemptFail
    \/ Finish

\* the pipeline on a clock that stands still but for the limiter's own sleeps
Spec == Init /\ [][Next]_vars

\* the pipeline with time passing at any point of a call
NextLimiter ==
    \/ Next
    \/ Tick

SpecLimiter == Init /\ [][NextLimiter]_vars

-----------------------------------------------------------------------------
(* retry_with_exponential_backoff *)

\* the arguments the helper is given.  Delays are durations in seconds and are
\* drawn non-negative; max_retries may be any integer.
InitBo ==
    /\ initial_delay \in 0..MaxInitialDelay
    /\ exponential_base \in 0..MaxBase
    /\ jitter \in BOOLEAN
    /\ max_retries \in (-1)..MaxRetries
    /\ bo_pc = "idle" /\ num_retries = 0 /\ delay = Rat(0) /\ bo_err = NoErr
    /\ bo_calls = 0 /\ bo_lastExc = NoErr /\ slept = <<>>

\* `jitter * random.random()`: a bool multiplies as 0 or 1
JitterFlag(j) == IF j THEN 1 ELSE 0

\* the jitter taken off the delay instead of added to it
NextDelayJitterDown(d, base, j, k) ==
    [num |-> d.num * base * (RandDen - JitterFlag(j) * k), den |-> d.den * RandDen]

\* `delay *= exponential_base * (1 + jitter * random.random())` with the draw
\* k / RandDen
NextDelay(d, base, j, k) ==
    [num |-> d.num * base * (RandDen + JitterFlag(j) * k), den |-> d.den * RandDen]

\* a ceiling that is never passed
RetriesExceededNever(n, r) == FALSE

\* the ceiling is passed one retry too early
RetriesExceededEarly(n, r) == n >= r

\* `num_retries > max_retries`
RetriesExceeded(n, r) == n > r

\* the error raised past the ceiling: Exception(f"Maximum number of retries
\* ({max_retries}) exceeded.", e)
TerminalError(r, e) == [kind |-> "MaxRetriesExceeded", retries |-> r, cause |-> e]

\* wrapper(*args, **kwargs) is entered
BoCall ==
    /\ bo_pc = "idle"
    /\ num_retries' = 0
    /\ delay' = Rat(initial_delay)
    /\ bo_pc' = "running"
    /\ UNCHANGED <<initial_delay, exponential_base, jitter, max_retries, bo_err,
                   bo_calls, bo_lastExc, slept>>
    /\ UNCHANGED notBoVars

\* func returns: the wrapper returns its result
BoFuncOk ==
    /\ bo_pc = "running"
    /\ bo_calls' = bo_calls + 1
    /\ bo_pc' = "returned"
    /\ UNCHANGED <<initial_delay, exponential_base, jitter, max_retries, num_retries,
                   delay, bo_err, bo_lastExc, slept>>
    /\ UNCHANGED notBoVars

\* func raises and the ceiling is passed: the terminal error is raised
BoFailRaise ==
    /\ bo_pc = "running"
    /\ RetriesExceeded(num_retries + 1, max_retries)
    /\ bo_calls' = bo_calls + 1
    /\ bo_lastExc' = [kind |-> "FuncError", attempt |-> bo_calls + 1]
    /\ num_retries' = num_retries + 1
    /\ bo_err' = TerminalError(max_retries, bo_lastExc')
    /\ bo_pc' = "raised"
    /\ UNCHANGED <<initial_delay, exponential_base, jitter, max_retries, delay, slept>>
    /\ UNCHANGED notBoVars

\* func raises below the ceiling: the delay grows, the wrapper sleeps and loops
BoFailRetry(k) ==
    /\ bo_pc = "running"
    /\ ~RetriesExceeded(num_retries + 1, max_retries)
    /\ bo_calls' = bo_calls + 1
    /\ bo_lastExc' = [kind |-> "FuncError", attempt |-> bo_calls + 1]
    /\ num_retries' = num_retries + 1
    /\ delay' = NextDelay(delay, exponential_base, jitter, k)
    /\ slept' = Append(slept, delay')
    /\ UNCHANGED <<initial_delay, exponential_base, jitter, max_retries, bo_pc, bo_err>>
    /\ UNCHANGED notBoVars

\* the wrapper has returned or raised and its frame is gone: it can be called
\* again, with a fresh counter and delay
BoFinish ==
    /\ bo_pc \in {"returned", "raised"}
    /\ bo_pc' = "idle"
    /\ num_retries' = 0 /\ delay' = Rat(0) /\ bo_err' = NoErr
    /\ bo_calls' = 0 /\ bo_lastExc' = NoErr /\ slept' = <<>>
    /\ UNCHANGED <<initial_delay, exponential_base, jitter, max_retries>>
    /\ UNCHANGED notBoVars

NextBackoff ==
    \/ BoCall
    \/ BoFuncOk
    \/ BoFailRaise
    \/ \E k \in RandDraws : BoFailRetry(k)
    \/ BoFinish

InitBackoff == InitBo /\ ParkedPipe /\ ParkedCache /\ ParkedTable

SpecBackoff == InitBackoff /\ [][NextBackoff]_vars

\* one round of the wrapper's loop: func is called and returns or raises, and
\* after a raise below the ceiling the wrapper sleeps
BoStep ==
    \/ BoFuncOk
    \/ BoFailRaise
    \/ \E k \in RandDraws : BoFailRetry(k)

\* the wrapper's loop under the assumption that every call of func and every
\* time.sleep returns: a round that can be taken is taken
SpecBackoffFair == InitBackoff /\ [][NextBackoff]_vars /\ WF_vars(BoStep)

-----------------------------------------------------------------------------
(* weak_lru *)

\* the decorator is applied with some maxsize to a method whose result may
\* refer to its receiver; the receivers exist and are referenced by the program
InitCache ==
    /\ maxsize \in 0..MaxSize
    /\ selfRefArgs \in SUBSET Args
    /\ status = [r \in Recv |-> "held"]
    /\ lru = <<>>
    /\ lastCall = NoCall
    /\ memo = [p \in Pairs |-> NoResult]
    /\ recent = <<>>
    /\ called = {}

\* the referent of a weak reference is still there
Alive(r) == status[r] # "reclaimed"

\* func(_self(), *args): the value the method computes for receiver r, and the
\* receivers that value refers to
Result(r, x) == [by |-> r, arg |-> x, refs |-> IF x \in selfRefArgs THEN {r} ELSE {}]

\* weakref.ref equality: while both referents are alive the referents are
\* compared (==); otherwise only a reference object equals itself, and
\* weakref.ref(self) of one object is one reference object
WeakRefEq(a, b) == IF Alive(a) /\ Alive(b) THEN ValueOf(a) = ValueOf(b) ELSE a = b

\* the lru_cache key (weakref.ref(self), *args) of entry e equals that of a
\* call on receiver r with argument x
KeyMatches(e, r, x) == e.arg = x /\ WeakRefEq(e.recv, r)

\* positions of the entries a call on (r, x) finds
Found(r, x) == {i \in 1..Len(lru) : KeyMatches(lru[i], r, x)}

\* the receivers an entry's key keeps alive: none, the key holds a weak reference
KeyOwns(e) == {}

\* the receivers the cache keeps alive: through keys and through stored results
CacheOwned == UNION {KeyOwns(lru[i]) \cup lru[i].result.refs : i \in 1..Len(lru)}

RemoveAt(q, i) == SubSeq(q, 1, i - 1) \o SubSeq(q, i + 1, Len(q))

Take(q, n) == SubSeq(q, 1, Min(n, Len(q)))

\* q without the element v
Without(q, v) == LET F[i \in 0..Len(q)] ==
                        IF i = 0 THEN <<>>
                        ELSE IF q[i] = v THEN F[i - 1] ELSE Append(F[i - 1], q[i])
                 IN F[Len(q)]

\* the most recently called distinct pairs after a call on p
Touch(q, p) == Take(<<p>> \o Without(q, p), maxsize)

\* what is recorded about a call on (r, x) that returns res
CallRecord(r, x, isHit, res) ==
    [recv |-> r, arg |-> x, hit |-> isHit, result |-> res,
     memoBefore |-> memo[<<r, x>>],
     wasRecent |-> <<r, x>> \in Range(recent),
     wasCalled |-> <<r, x>> \in called]

\* inner(self, x) finds the key in the cache: the entry becomes the most
\* recently used and its stored result is returned; the method does not run
CacheHit(r, x) ==
    /\ status[r] = "held"
    /\ maxsize > 0
    /\ Found(r, x) # {}
    /\ LET i == CHOOSE j \in Found(r, x) : TRUE
           e == lru[i]
       IN  /\ lru' = Append(RemoveAt(lru, i), e)
           /\ lastCall' = CallRecord(r, x, TRUE, e.result)
           /\ memo' = [memo EXCEPT ![<<r, x>>] = e.result]
    /\ recent' = Touch(recent, <<r, x>>)
    /\ called' = called \cup {<<r, x>>}
    /\ UNCHANGED <<maxsize, selfRefArgs, status>>
    /\ UNCHANGED notCacheVars

\* inner(self, x) does not find the key: the method runs on the receiver; with
\* maxsize 0 nothing is stored, otherwise the result is stored as the most
\* recently used entry, in place of the least recently used one if the cache
\* is full
CacheMiss(r, x) ==
    /\ status[r] = "held"
    /\ (maxsize = 0 \/ Found(r, x) = {})
    /\ LET res == Result(r, x)
           new == [recv |-> r, arg |-> x, result |-> res]
           full == Len(lru) >= maxsize
           evicted == IF maxsize > 0 /\ full THEN {lru[1].result} ELSE {}
       IN  /\ lru' = IF maxsize = 0 THEN lru
                     ELSE IF full THEN Append(Tail(lru), new)
                     ELSE Append(lru, new)
           /\ lastCall' = CallRecord(r, x, FALSE, res)
           /\ memo' = [p \in Pairs |->
                          IF maxsize > 0 /\ p = <<r, x>> THEN res
                          ELSE IF memo[p] \in evicted THEN NoResult
                          ELSE memo[p]]
    /\ recent' = Touch(recent, <<r, x>>)
    /\ called' = called \cup {<<r, x>>}
    /\ UNCHANGED <<maxsize, selfRefArgs, status>>
    /\ UNCHANGED notCacheVars

\* the program lets go of its last reference to receiver r
Drop(r) ==
    /\ status[r] = "held"
    /\ status' = [status EXCEPT ![r] = "dropped"]
    /\ UNCHANGED <<maxsize, selfRefArgs, lru, lastCall, memo, recent, called>>
    /\ UNCHANGED notCacheVars

\* the runtime reclaims a receiver nothing refers to strongly; the weak
\* references to it are dead from then on, the entries keyed by them stay
Reclaim(r) ==
    /\ status[r] = "dropped"
    /\ r \notin CacheOwned
    /\ status' = [status EXCEPT ![r] = "reclaimed"]
    /\ UNCHANGED <<maxsize, selfRefArgs, lru, lastCall, memo, recent, called>>
    /\ UNCHANGED notCacheVars

NextCache ==
    \/ \E r \in Recv, x \in Args : CacheHit(r, x)
    \/ \E r \in Recv, x \in Args : CacheMiss(r, x)
    \/ \E r \in Recv : Drop(r)
    \/ \E r \in Recv : Reclaim(r)

InitCacheSpec == InitCache /\ ParkedPipe /\ ParkedBo /\ ParkedTable

SpecCache == InitCacheSpec /\ [][NextCache]_vars

-----------------------------------------------------------------------------
(* Properties of the pipeline *)

RECURSIVE Concat(_)
Concat(ss) == IF ss = <<>> THEN <<>> ELSE ss[1] \o Concat(Tail(ss))

\* a batch size the batcher's contract covers
ValidBatchSize == ~IsNone(_batch_size) /\ Val(_batch_size) >= 1

\* C1: for a batch size b >= 1 the batches yielded by to_batches are the
\* contiguous, non-overlapping slices text[(i-1)b : ib] in order, every batch
\* but the last has length b, and once the generator is exhausted there are
\* ceil(len/b) of them and their concatenation is the input, with or without
\* progress reporting (which counts one tick per batch, ceil(len/b) in total).
C1_BatchesPartitionInput ==
    ValidBatchSize =>
        LET b == Val(_batch_size)
            n == Len(text)
            k == Len(batches)
        IN  /\ \A i \in 1..k : batches[i] = SubSeq(text, (i - 1) * b + 1, Min(i * b, n))
            /\ \A i \in 1..k : Len(batches[i]) >= 1
            /\ \A i \in 1..(k - 1) : Len(batches[i]) = b
            /\ k * b < n + b
            /\ _progress => ticks = k
            /\ gen = "done" =>
                  /\ k * b >= n
                  /\ Concat(batches) = text
                  /\ _progress => total = Some(k)

\* C1 witness: an exhausted generator, with progress, whose last batch is short
C1_Witness ==
    /\ ValidBatchSize /\ gen = "done" /\ _progress
    /\ Len(text) = 3 /\ Val(_batch_size) = 2 /\ Len(batches) = 2
    /\ Len(batches[2]) = 1

\* C2: for a batch size b >= 1 and a length-preserving embedding function, the
\* list __call__ returns has the input's length and its i-th element is the
\* embedding of the i-th input item, whatever retry, rate limit and progress
\* are configured.
C2_ResultIsMapOfInput ==
    (pc = "returned" /\ ValidBatchSize) =>
        /\ Len(embeds) = Len(text)
        /\ \A i \in 1..Len(text) : embeds[i] = Embed(text[i])

\* C2 witness: a returned call over three items in two batches, run through
\* retry, limiter and progress, whose last batch failed once before it succeeded
C2_Witness ==
    /\ pc = "returned" /\ ValidBatchSize
    /\ text = <<"a", "b", "a">> /\ Val(_batch_size) = 2
    /\ embed_retry /\ embed_limited /\ _progress /\ failures = 1

\* C3: with retry configured with `tries` attempts, a batch call that succeeded
\* after k failures had k < tries and invoked the function k+1 times, and a
\* batch call that raised invoked it exactly `tries` times, all failing.
C3_RetryInvocationCount ==
    embed_retry =>
        LET tries == retry_kwargs.tries IN
        /\ (pc \in {"loop", "returned"} /\ Len(batches) > 0) =>
               (failures < tries /\ attempts = failures + 1)
        /\ pc = "embed" => (attempts = failures /\ failures < tries)
        /\ (pc = "raised" /\ gen # "done") =>
               (failures = tries /\ attempts = tries)

\* C3 witness: the second batch exhausted a budget of three attempts
C3_Witness ==
    /\ embed_retry /\ pc = "raised" /\ gen # "done"
    /\ retry_kwargs.tries = 3 /\ attempts = 3 /\ Len(batches) = 2

\* C4: when the retry budget is exhausted on a batch, the error that leaves
\* __call__ is the exception the last attempt raised, not another one around it.
C4_LastExceptionUnchanged ==
    (embed_retry /\ pc = "raised" /\ gen # "done") =>
        /\ err = lastExc
        /\ err = [kind |-> "FuncError", batch |-> Len(batches),
                  attempt |-> retry_kwargs.tries]

\* C4 witness: a budget of two attempts exhausted on the first batch
C4_Witness ==
    /\ embed_retry /\ pc = "raised" /\ gen # "done"
    /\ retry_kwargs.tries = 2 /\ Len(batches) = 1
    /\ err = [kind |-> "FuncError", batch |-> 1, attempt |-> 2]

-----------------------------------------------------------------------------
(* Properties of retry_with_exponential_backoff *)

\* C5: with max_retries = r >= 0 and a function that fails every time, one call
\* of the wrapper invokes the function exactly r+1 times and then raises the
\* terminal error, which names r and carries the exception of the last
\* invocation; the wrapper returns normally only when an invocation succeeded.
C5_ExhaustionAfterAllRetries ==
    /\ (bo_pc = "raised" /\ max_retries >= 0) =>
          /\ bo_calls = max_retries + 1
          /\ bo_err = [kind |-> "MaxRetriesExceeded", retries |-> max_retries,
                       cause |-> [kind |-> "FuncError", attempt |-> max_retries + 1]]
    /\ (bo_pc = "running" /\ max_retries >= 0) =>
          (bo_calls = num_retries /\ bo_calls <= max_retries)
    /\ bo_pc = "returned" => (bo_calls = num_retries + 1 /\ bo_err = NoErr)

\* C5 witness: three retries allowed, four failing invocations, terminal error
C5_Witness ==
    /\ bo_pc = "raised" /\ max_retries = 3 /\ bo_calls = 4
    /\ bo_err.retries = 3 /\ bo_err.cause.attempt = 4

\* the delay the n-th sleep started from: initial_delay, or the delay before
DelayBefore(n) == IF n = 1 THEN Rat(initial_delay) ELSE slept[n - 1]

\* C6: within one call of the wrapper the n-th delay slept is the previous
\* delay times exponential_base times (1 + jitter * r) for a draw r in [0, 1),
\* starting from initial_delay; so it is at least initial_delay *
\* exponential_base^n, with equality when jitter is off, and for
\* exponential_base >= 1 (initial_delay >= 0) no delay is below the one before.
C6_DelayGrowth ==
    \A n \in 1..Len(slept) :
        LET d == slept[n]
            p == DelayBefore(n)
            lower == Rat(initial_delay * Pow(exponential_base, n))
        IN  /\ \E k \in RandDraws :
                d.num * p.den * RandDen
                    = p.num * exponential_base * (RandDen + (IF jitter THEN k ELSE 0)) * d.den
            /\ RatLeq(lower, d)
            /\ ~jitter => RatEq(d, lower)
            /\ (exponential_base >= 1 /\ initial_delay >= 0) => RatLeq(p, d)

\* C6 witness: the third delay of a jittered doubling from 1 lies above 8
C6_Witness ==
    /\ Len(slept) = 3 /\ jitter /\ initial_delay = 1 /\ exponential_base = 2
    /\ ~RatLeq(slept[3], Rat(8))

\* C18: every call of the wrapper, once running, eventually returns or raises
\* (each call of func and each sleep returning), whatever func does; a round
\* that does not end the call is one more retry below the ceiling max_retries,
\* and the call ends only by the result of a successful invocation or by the
\* terminal error once the retries exceed max_retries.
C18_BackoffTerminates ==
    /\ (bo_pc = "running") ~> (bo_pc \in {"returned", "raised"})
    /\ [][bo_pc = "running" =>
            \/ /\ bo_pc' = "running"
               /\ num_retries' = num_retries + 1
               /\ num_retries' <= max_retries
            \/ /\ bo_pc' = "returned"
               /\ bo_err' = NoErr /\ bo_calls' = bo_calls + 1
               /\ bo_lastExc' = bo_lastExc
            \/ /\ bo_pc' = "raised"
               /\ num_retries' > max_retries
               /\ bo_err'.kind = "MaxRetriesExceeded"]_vars

\* C18 witness: a call that returned at the last invocation the ceiling allows,
\* after three failures and three sleeps
C18_Witness ==
    /\ bo_pc = "returned" /\ max_retries = 3
    /\ num_retries = 3 /\ bo_calls = 4 /\ Len(slept) = 3

-----------------------------------------------------------------------------
(* Properties of weak_lru *)

\* C7: a call on a (receiver, args) pair that was called before and whose entry
\* has not been evicted since is served from the cache, without running the
\* method, and returns what the earlier call returned.
C7_RepeatCallServedFromCache ==
    lastCall.memoBefore # NoResult =>
        (lastCall.hit /\ lastCall.result = lastCall.memoBefore)

\* C8: the cache never holds more than maxsize entries; a call on a pair that
\* was called before but is no longer among the maxsize most recently used
\* pairs runs the method again, and a call on a pair that is among them is
\* served from the cache.
C8_LeastRecentlyUsedEvicted ==
    /\ Len(lru) <= maxsize
    /\ (lastCall.wasCalled /\ ~lastCall.wasRecent) => ~lastCall.hit
    /\ lastCall.wasRecent => lastCall.hit

\* C9: the cache holds no owning reference to any receiver, so a receiver the
\* program has let go of can be reclaimed whatever entries the cache holds.
C9_CacheNeverOwnsReceiver ==
    \A r \in Recv : r \notin CacheOwned

\* C10: receivers are told apart by identity: a call never returns a result
\* that was computed for another receiver, also when the two compare equal.
C10_ReceiverComparedByIdentity ==
    lastCall # NoCall => lastCall.result.by = lastCall.recv

-----------------------------------------------------------------------------
(* Configuration errors, rate limiting, ordering and failure of the pipeline *)

\* C11: a batch size <= 0 is rejected when the pipeline is configured: the
\* builder never leaves one in the wrapper, so no call raises an error of the
\* batch size from inside the iteration of the batches, and no call returns a
\* result computed with a batch size <= 0.
C11_NonPositiveBatchSizeRejectedAtBuild ==
    /\ ~IsNone(_batch_size) => Val(_batch_size) >= 1
    /\ (pc = "raised" /\ gen = "done") => IsNone(_batch_size)
    /\ pc = "returned" => ValidBatchSize

\* C12: with rate_limit(max_calls, period) in force, the admissions of batch
\* calls by the limiter that are younger than `period` (those of any window of
\* that length) are never more than max_calls; every batch the generator
\* yielded was admitted, after the limiter's sleep if there was one, and every
\* admitted batch whose call completed has its vectors in the result.
C12_AtMostMaxCallsPerPeriod ==
    embed_limited =>
        /\ CallUnit * Len(starts) <= rate_limiter_kwargs.max_calls
        /\ \A i \in 1..Len(starts) : starts[i] < rate_limiter_kwargs.period
        /\ passes = Len(batches)
        /\ pc \in {"loop", "returned"} => Len(embeds) = Len(Concat(batches))

\* C13: when rate limiting is configured and the interpreter is one the limiter
\* does not support (3.11 and later), a call prints the warning, runs without a
\* limiter (no admission, no wait), fails for no reason of the limiter, executes
\* every batch and returns what the pipeline without a limiter returns: the
\* embeddings of the input items in order.
C13_UnavailableLimiterSkippedWithWarning ==
    (pc # "idle" /\ KwLen(rate_limiter_kwargs) > 0 /\ pyminor >= 11) =>
        /\ warned /\ ~embed_limited
        /\ passes = 0 /\ starts = <<>> /\ lim_calls = <<>> /\ lim_waited = 0
        /\ pc = "raised" => (gen = "done" \/ err = lastExc)
        /\ pc \in {"loop", "returned"} => Len(embeds) = Len(Concat(batches))
        /\ (pc = "returned" /\ ValidBatchSize) =>
               embeds = [i \in 1..Len(text) |-> Embed(text[i])]

\* C13 witness: a call on Python 3.11 with rate limiting configured that warned
\* and returned the embeddings of two batches
C13_Witness ==
    /\ pyminor = 11 /\ KwLen(rate_limiter_kwargs) > 0
    /\ warned /\ pc = "returned" /\ Len(batches) = 2
    /\ embeds = <<Embed("b"), Embed("a")>>

\* C16: the retry decorator is around each batch call on its own: a batch
\* starts with all `tries` attempts whatever failed for the batches before it,
\* an attempt that is repeated is for the batch that failed, with that batch
\* as its argument, and every batch before it returned exactly once.
C16_RetryPerBatch ==
    embed_retry =>
        LET tries == retry_kwargs.tries
            k == Len(batches)
        IN  /\ pc = "embed" => tries_left = tries - failures
            /\ attempts > 0 => (lastIdx = k /\ lastArg = batches[k])
            /\ okCalls = IF pc = "embed" \/ (pc = "raised" /\ gen # "done")
                         THEN k - 1 ELSE k

\* C16 witness: the first batch failed before it succeeded; the second batch
\* failed once and is about to be tried again with two of its three attempts left
C16_Witness ==
    /\ embed_retry /\ pc = "embed" /\ earlierFailed
    /\ retry_kwargs.tries = 3 /\ Len(batches) = 2
    /\ failures = 1 /\ tries_left = 2 /\ lastIdx = 2 /\ okCalls = 1

\* C17: the function is invoked on the batches in input order: every invocation,
\* a repeated attempt included, is for the batch right after those whose call
\* has returned, never for an earlier batch than the invocation before it, and
\* its argument is that batch's slice of the input; this with any of retry,
\* rate limit and progress configured.
C17_BatchesInvokedInOrder ==
    [][(attempts' # attempts /\ attempts' > 0) =>
          LET j == lastIdx'
              b == Val(_batch_size)
          IN  /\ j = okCalls + 1
              /\ j >= lastIdx
              /\ lastArg' = SubSeq(text, (j - 1) * b + 1, Min(j * b, Len(text)))]_vars

\* C17 witness: the third batch returned after the limiter held it back; an
\* earlier batch was retried, and progress was reported
C17_Witness ==
    /\ embed_retry /\ embed_limited /\ _progress
    /\ earlierFailed /\ lim_waited > 0
    /\ lastIdx = 3 /\ okCalls = 3 /\ lastArg = <<"b">> /\ text = <<"a", "a", "b">>

\* C19: with retry and rate limit both configured, in whichever order, and the
\* limiter in use, the limiter is entered once per batch: the entries are as
\* many as the batches yielded, however many attempts the retry decorator made
\* for them.
C19_LimiterEnteredOncePerBatch ==
    (embed_limited /\ embed_retry) =>
        /\ passes = Len(batches)
        /\ pc = "embed" => passes + attempts = Len(batches) + failures

\* C19 witness: two batches, two entries of the limiter, although the first
\* batch was retried and the second has failed twice so far
C19_Witness ==
    /\ embed_limited /\ embed_retry /\ pc = "embed"
    /\ earlierFailed /\ Len(batches) = 2 /\ failures = 2 /\ attempts = 2
    /\ passes = 2

\* C20: when an exception of the function leaves the call for batch j (no
\* retry configured, or none left), __call__ raises that exception and returns
\* nothing, the vectors of the batches before j included; the latest invocation
\* is the one for batch j that raised, and neither the generator nor the
\* function runs again for that call.
C20_FailureEndsTheCall ==
    /\ err.kind = "FuncError" =>
           /\ pc = "raised" /\ result = None
           /\ err = lastExc /\ err.batch = Len(batches)
           /\ lastIdx = err.batch /\ okCalls = err.batch - 1
           /\ ~ENABLED (GenYield \/ GenStop \/ AttemptOk \/ AttemptFail)
    /\ result # None => (pc = "returned" /\ err = NoErr)

\* C20 witness: the second of three batches raised; the vector of the first is
\* not returned and the third batch was never invoked
C20_Witness ==
    /\ pc = "raised" /\ err.kind = "FuncError" /\ err.batch = 2
    /\ Len(text) = 3 /\ Val(_batch_size) = 1
    /\ Len(embeds) = 1 /\ result = None /\ lastIdx = 2

-----------------------------------------------------------------------------
(* Properties of with_embeddings *)

\* C14: the table with_embeddings returns has the columns of the input table,
\* unchanged and in order, followed by one more column named "vector" that has
\* one entry per row; for an embedding function that returns one vector per
\* item, its i-th entry is the embedding of the i-th value of the source column.
C14_InputPlusVectorColumn ==
    we_pc = "returned" =>
        LET n == Len(data)
            src == ColumnValues(data, column)
        IN  /\ Len(table) = n + 1
            /\ \A k \in 1..n : table[k] = data[k]
            /\ table[n + 1].name = "vector"
            /\ Len(table[n + 1].values) = NumRows(data)
            /\ ~miscounted =>
                   table[n + 1].values = [i \in 1..Len(src) |-> Embed(src[i])]

\* C14 witness: a table of three rows embedded on its "id" column in two batches
C14_Witness ==
    /\ we_pc = "returned" /\ ~miscounted
    /\ column = "id" /\ NumRows(data) = 3 /\ Len(batches) = 2
    /\ table[3] = [name |-> "vector", values |-> <<Embed(1), Embed(2), Embed(3)>>]

\* C15: when the embedding function returned a wrong number of vectors for some
\* batch and the embeddings are not as many as the table has rows,
\* with_embeddings ends in an error: it never returns a table whose "vector"
\* column is shorter or longer than the other columns.
C15_LengthMismatchIsAnError ==
    /\ (we_pc \in {"returned", "raised"} /\ pc = "returned"
            /\ Len(embeds) # NumRows(data)) =>
           (we_pc = "raised" /\ we_err.kind = "ArrowInvalid" /\ table = <<>>)
    /\ we_pc = "returned" =>
           \A k \in 1..Len(table) : Len(table[k].values) = NumRows(data)

\* C15 witness: the function returned one vector for a batch of two items and
\* with_embeddings raised for the three-row table
C15_Witness ==
    /\ we_pc = "raised" /\ miscounted /\ pc = "returned"
    /\ NumRows(data) = 3 /\ Len(embeds) = 2 /\ Len(batches) = 2

=============================================================================
